---- MODULE Spec2Model ----
(***************************************************************************)
(* Model of zspell-index-cli (src/zspell-index-cli/src/main.rs): the index *)
(* synchronisation run update_from_wooorm, the per-language resolver       *)
(* update_inner, make_downloadable, get_latest_hash and write_to_file.     *)
(*                                                                         *)
(* Strings the code inspects (listing names, output file names, hashes)    *)
(* are sequences of one-character strings so that ends_with, format! and   *)
(* Path::set_extension are computed, not assumed.                          *)
(***************************************************************************)
EXTENDS Integers, Sequences, FiniteSets, TLC

VARIABLES pc, git_ref, all_langs, idx, served, ret, items, has_errors,
          index, output_path, output_path_pretty, ser, ser_pretty, fs,
          result, dir_tree

vars == <<pc, git_ref, all_langs, idx, served, ret, items, has_errors,
          index, output_path, output_path_pretty, ser, ser_pretty, fs,
          result, dir_tree>>

(***************************************************************************)
(* Bounds of the model.                                                    *)
(***************************************************************************)
\* longest language-directory listing served during a whole run
MaxEntries == 3
\* longest top-level listing
MaxLangs == 3
\* longest listing given to the resolver when it is checked on its own
MaxListing == 4

(***************************************************************************)
(* Program constants.                                                      *)
(***************************************************************************)
WOOORM_TAG == "source-wooorm"
INDEX_VERSION == 1
OUTPUT_DIR == "CARGO_MANIFEST_DIR/.."
FILE_NAME ==
    <<"z","s","p","e","l","l","-","i","n","d","e","x",".","j","s","o","n">>
FILE_NAME_PRETTY ==
    <<"z","s","p","e","l","l","-","i","n","d","e","x","-","p","r","e","t","t","y",
      ".","j","s","o","n">>
\* the string literals of update_inner, make_downloadable, update_from_wooorm
AFF_SUFFIX == <<".","a","f","f">>
DIC_SUFFIX == <<".","d","i","c">>
LICENSE_SUFFIX == <<"l","i","c","e","n","s","e">>
SHA1_PREFIX == <<"s","h","a","1",":">>
INCOMPLETE_EXT == <<"i","n","c","o","m","p","l","e","t","e",".","j","s","o","n">>

(***************************************************************************)
(* String helpers: str::ends_with and Path::set_extension.                 *)
(***************************************************************************)
ends_with(s, suf) ==
    /\ Len(s) >= Len(suf)
    /\ SubSeq(s, Len(s) - Len(suf) + 1, Len(s)) = suf

\* index of the last '.' that is not the first character, 0 when there is none
LastDot(s) ==
    LET D == {i \in 2..Len(s) : s[i] = "."}
    IN  IF D = {} THEN 0 ELSE CHOOSE i \in D : \A j \in D : j <= i

file_stem(s) == IF LastDot(s) = 0 THEN s ELSE SubSeq(s, 1, LastDot(s) - 1)

\* Path::join keeps the directory and appends the file name
PathJoin(dir, name) == [dir |-> dir, file_name |-> name]

\* Path::set_extension: the stem of the file name, a dot, the new extension
set_extension(p, ext) ==
    [p EXCEPT !.file_name = file_stem(p.file_name) \o <<".">> \o ext]

(***************************************************************************)
(* Listing / ListingContents.                                              *)
(***************************************************************************)
Dir == [type |-> "dir"]
File(u) == [type |-> "file", download_url |-> u]
Listing(n, sz, sh, c) == [name |-> n, size |-> sz, sha |-> sh, contents |-> c]

\* make_downloadable without the check that the entry is a file
make_downloadable_AnyKind(listing) ==
    [tag |-> "Ok",
     val |-> [urls |-> <<IF listing.contents.type = "file"
                         THEN listing.contents.download_url ELSE "">>,
              hash |-> SHA1_PREFIX \o listing.sha,
              size |-> listing.size]]

(***************************************************************************)
(* make_downloadable                                                       *)
(***************************************************************************)
make_downloadable(listing) ==
    IF listing.contents.type # "file"
    THEN [tag |-> "Err", msg |-> "expected a file but got a directory"]
    ELSE [tag |-> "Ok",
          val |-> [urls |-> <<listing.contents.download_url>>,
                   hash |-> SHA1_PREFIX \o listing.sha,
                   size |-> listing.size]]

(***************************************************************************)
(* update_inner.  resp is what the agent got for dir_url: a transport      *)
(* failure, a body that is not a Tree, or a Tree.  id is the fresh uuid.   *)
(***************************************************************************)
\* Iterator::find over the listing: the first entry whose name ends with suf
\* (0 for None)
FindSuffix(tree, suf) ==
    LET S == {i \in 1..Len(tree) : ends_with(tree[i].name, suf)}
    IN  IF S = {} THEN 0 ELSE CHOOSE i \in S : \A j \in S : i <= j

FindAff(tree) == FindSuffix(tree, AFF_SUFFIX)
FindDic(tree) == FindSuffix(tree, DIC_SUFFIX)

\* the license looked up by its whole name instead of by suffix
FindLic_ExactName(tree) ==
    LET S == {i \in 1..Len(tree) : tree[i].name = LICENSE_SUFFIX}
    IN  IF S = {} THEN 0 ELSE CHOOSE i \in S : \A j \in S : i <= j

FindLic(tree) == FindSuffix(tree, LICENSE_SUFFIX)

\* BuildEntry with the affix and dictionary downloadables exchanged
BuildEntry_Swapped(lang, afx_entry, dic_entry, lic_entry, id) ==
    LET aff == make_downloadable(afx_entry)
        dic == make_downloadable(dic_entry)
        lic == make_downloadable(lic_entry)
    IN  IF aff.tag = "Err" THEN [tag |-> "Err", msg |-> aff.msg]
        ELSE IF dic.tag = "Err" THEN [tag |-> "Err", msg |-> dic.msg]
        ELSE IF lic.tag = "Err" THEN [tag |-> "Err", msg |-> lic.msg]
        ELSE [tag |-> "Some",
              entry |-> [lang |-> lang,
                         tags |-> <<WOOORM_TAG>>,
                         is_ext |-> FALSE,
                         id |-> id,
                         format |-> [fmt |-> "hunspell",
                                     aff |-> dic.val,
                                     dic |-> aff.val],
                         lic |-> lic.val]]

\* lines 109-120: the three make_downloadable calls in evaluation order
BuildEntry(lang, afx_entry, dic_entry, lic_entry, id) ==
    LET aff == make_downloadable(afx_entry)
        dic == make_downloadable(dic_entry)
        lic == make_downloadable(lic_entry)
    IN  IF aff.tag = "Err" THEN [tag |-> "Err", msg |-> aff.msg]
        ELSE IF dic.tag = "Err" THEN [tag |-> "Err", msg |-> dic.msg]
        ELSE IF lic.tag = "Err" THEN [tag |-> "Err", msg |-> lic.msg]
        ELSE [tag |-> "Some",
              entry |-> [lang |-> lang,
                         tags |-> <<WOOORM_TAG>>,
                         is_ext |-> FALSE,
                         id |-> id,
                         format |-> [fmt |-> "hunspell",
                                     aff |-> aff.val,
                                     dic |-> dic.val],
                         lic |-> lic.val]]

\* update_inner that only accepts a dictionary file listed after the affix file
update_inner_AffBeforeDic(lang, resp, id) ==
    IF resp.kind = "transport_error"
    THEN [tag |-> "Err", msg |-> "requesting directory listing"]
    ELSE IF resp.kind = "bad_json"
    THEN [tag |-> "Err", msg |-> "into_json"]
    ELSE LET tree == resp.tree
         IN  IF FindAff(tree) = 0
             THEN [tag |-> "None", skip |-> "no affix file"]
             ELSE IF FindDic(tree) < FindAff(tree)
             THEN [tag |-> "None", skip |-> "no dictionary file"]
             ELSE IF FindLic(tree) = 0
             THEN [tag |-> "None", skip |-> "no license file"]
             ELSE BuildEntry(lang, tree[FindAff(tree)], tree[FindDic(tree)],
                             tree[FindLic(tree)], id)

update_inner(lang, resp, id) ==
    IF resp.kind = "transport_error"
    THEN [tag |-> "Err", msg |-> "requesting directory listing"]
    ELSE IF resp.kind = "bad_json"
    THEN [tag |-> "Err", msg |-> "into_json"]
    ELSE LET tree == resp.tree
         IN  IF FindAff(tree) = 0
             THEN [tag |-> "None", skip |-> "no affix file"]
             ELSE IF FindDic(tree) = 0
             THEN [tag |-> "None", skip |-> "no dictionary file"]
             ELSE IF FindLic(tree) = 0
             THEN [tag |-> "None", skip |-> "no license file"]
             ELSE BuildEntry(lang, tree[FindAff(tree)], tree[FindDic(tree)],
                             tree[FindLic(tree)], id)

(***************************************************************************)
(* get_latest_hash.  resp is what the agent got for commits/main.          *)
(***************************************************************************)
get_latest_hash(resp) ==
    IF resp.kind = "transport_error"
    THEN [tag |-> "Err", msg |-> "requesting latest git hash"]
    ELSE IF resp.kind = "bad_json"
    THEN [tag |-> "Err", msg |-> "into_json"]
    ELSE IF resp.value.type # "object"
    THEN [tag |-> "Err", msg |-> "invalid response"]
    ELSE IF "sha" \notin DOMAIN resp.value.map
            \/ resp.value.map["sha"].type # "string"
    THEN [tag |-> "Err", msg |-> "response is missing sha"]
    ELSE [tag |-> "Ok", val |-> resp.value.map["sha"].str]

(***************************************************************************)
(* Index::new (src/zspell-index/src/lib.rs) and the two serialisations.    *)
(***************************************************************************)
Index_new ==
    [schema_version |-> INDEX_VERSION, updated |-> "now",
     retrieved |-> "None", items |-> <<>>]

\* a local that has not been assigned yet
Unset == [form |-> "unset"]

to_string(ix) == [form |-> "compact", value |-> ix]
to_string_pretty(ix) == [form |-> "pretty", value |-> ix]

(***************************************************************************)
(* The remote: what the agent can be answered.                             *)
(***************************************************************************)
SeqsNoRep(S, n) ==
    {s \in UNION {[1..k -> S] : k \in 0..n} :
        \A i, j \in 1..Len(s) : i # j => s[i] # s[j]}

TransportError == [kind |-> "transport_error"]
BadJson == [kind |-> "bad_json"]
OkTree(t) == [kind |-> "ok", tree |-> t]

HashResponses ==
    { TransportError, BadJson,
      [kind |-> "ok", value |-> [type |-> "array"]],
      [kind |-> "ok", value |-> [type |-> "object", map |-> <<>>]],
      [kind |-> "ok",
       value |-> [type |-> "object", map |-> ("sha" :> [type |-> "number"])]],
      [kind |-> "ok",
       value |-> [type |-> "object",
                  map |-> ("sha" :> [type |-> "string", str |-> "c0ffee"])]] }

\* entries of the top-level listing: two language directories and a file
TopPool ==
    { Listing(<<"e","n">>, 0, <<"1">>, Dir),
      Listing(<<"d","e">>, 0, <<"2">>, Dir),
      Listing(<<"r","e","a","d","m","e">>, 7, <<"3">>, File("u_readme")) }

RootResponses ==
    {TransportError, BadJson} \cup {OkTree(t) : t \in SeqsNoRep(TopPool, MaxLangs)}

\* entries of a language directory
E_aff == Listing(<<"x">> \o AFF_SUFFIX, 11, <<"a","a">>, File("u_aff"))
E_affdir == Listing(<<"d">> \o AFF_SUFFIX, 0, <<"a","d">>, Dir)
E_dic == Listing(<<"x">> \o DIC_SUFFIX, 22, <<"b","b">>, File("u_dic"))
E_lic == Listing(LICENSE_SUFFIX, 33, <<"c","c">>, File("u_lic"))
E_aff2 == Listing(<<"y">> \o AFF_SUFFIX, 44, <<"a","2">>, File("u_aff2"))
E_dicdir == Listing(<<"d">> \o DIC_SUFFIX, 0, <<"b","d">>, Dir)
E_licdir == Listing(<<"d","-">> \o LICENSE_SUFFIX, 0, <<"c","d">>, Dir)
E_LICENSE ==
    Listing(<<"L","I","C","E","N","S","E">>, 55, <<"c","u">>, File("u_LICENSE"))
E_License ==
    Listing(<<"L","i","c","e","n","s","e">>, 56, <<"c","t">>, File("u_License"))
E_unlicense ==
    Listing(<<"u","n">> \o LICENSE_SUFFIX, 66, <<"c","n">>, File("u_unlicense"))
E_readme ==
    Listing(<<"r","e","a","d","m","e",".","m","d">>, 77, <<"d","d">>, File("u_rd"))

LangPool == {E_aff, E_affdir, E_dic, E_lic}
ResolverPool ==
    {E_aff, E_affdir, E_dic, E_lic, E_aff2, E_dicdir, E_licdir,
     E_LICENSE, E_License, E_unlicense, E_readme}

DirResponses ==
    {TransportError, BadJson} \cup {OkTree(t) : t \in SeqsNoRep(LangPool, MaxEntries)}
ResolverListings == SeqsNoRep(ResolverPool, MaxListing)

(***************************************************************************)
(* update_from_wooorm, one action per step of the run.                     *)
(***************************************************************************)
Running == [tag |-> "Running"]
Ok == [tag |-> "Ok"]
Err(m) == [tag |-> "Err", msg |-> m]
NoRet == [tag |-> "NoRet"]

Init ==
    /\ pc = "get_latest_hash"
    /\ git_ref = "unset"
    /\ all_langs = <<>>
    /\ idx = 1
    /\ served = <<>>
    /\ ret = NoRet
    /\ items = <<>>
    /\ has_errors = FALSE
    /\ index = Index_new
    /\ output_path = PathJoin(OUTPUT_DIR, FILE_NAME)
    /\ output_path_pretty = PathJoin(OUTPUT_DIR, FILE_NAME_PRETTY)
    /\ ser = Unset
    /\ ser_pretty = Unset
    /\ fs = <<>>
    /\ result = Running
    /\ dir_tree = <<>>

\* line 161
GetLatestHash ==
    /\ pc = "get_latest_hash"
    /\ \E resp \in HashResponses :
          LET r == get_latest_hash(resp)
          IN  IF r.tag = "Ok"
              THEN /\ git_ref' = r.val
                   /\ pc' = "root_listing"
                   /\ result' = result
              ELSE /\ git_ref' = git_ref
                   /\ pc' = "done"
                   /\ result' = Err(r.msg)
    /\ UNCHANGED <<all_langs, idx, served, ret, items, has_errors, index,
                   output_path, output_path_pretty, ser, ser_pretty, fs, dir_tree>>

\* RootListing that reports the failure but goes on with an empty listing
RootListing_NoAbort ==
    /\ pc = "root_listing"
    /\ \E resp \in RootResponses :
          IF resp.kind = "ok"
          THEN /\ all_langs' = resp.tree
               /\ result' = result
          ELSE /\ all_langs' = <<>>
               /\ result' = Err(IF resp.kind = "transport_error"
                                THEN "requesting root listing" ELSE "into_json")
    /\ pc' = "loop"
    /\ idx' = 1
    /\ items' = <<>>
    /\ has_errors' = FALSE
    /\ UNCHANGED <<git_ref, served, ret, index, output_path, output_path_pretty,
                   ser, ser_pretty, fs, dir_tree>>

\* lines 162-171
RootListing ==
    /\ pc = "root_listing"
    /\ \E resp \in RootResponses :
          IF resp.kind = "ok"
          THEN /\ all_langs' = resp.tree
               /\ pc' = "loop"
               /\ result' = result
          ELSE /\ all_langs' = all_langs
               /\ pc' = "done"
               /\ result' = Err(IF resp.kind = "transport_error"
                                THEN "requesting root listing" ELSE "into_json")
    /\ idx' = 1
    /\ items' = <<>>
    /\ has_errors' = FALSE
    /\ UNCHANGED <<git_ref, served, ret, index, output_path, output_path_pretty,
                   ser, ser_pretty, fs, dir_tree>>

\* lines 173-177: a top-level entry that is not a directory
LoopSkipFile ==
    /\ pc = "loop"
    /\ idx <= Len(all_langs)
    /\ all_langs[idx].contents.type # "dir"
    /\ idx' = idx + 1
    /\ UNCHANGED <<pc, git_ref, all_langs, served, ret, items, has_errors, index,
                   output_path, output_path_pretty, ser, ser_pretty, fs, result,
                   dir_tree>>

\* the match with a skip treated like an error
MatchResult_SkipFlags(r, its, errs) ==
    IF r.tag = "Some" THEN [items |-> Append(its, r.entry), has_errors |-> errs]
    ELSE [items |-> its, has_errors |-> TRUE]

\* the match with new entries put in front of the older ones
MatchResult_Prepend(r, its, errs) ==
    IF r.tag = "Some" THEN [items |-> <<r.entry>> \o its, has_errors |-> errs]
    ELSE IF r.tag = "None" THEN [items |-> its, has_errors |-> errs]
    ELSE [items |-> its, has_errors |-> TRUE]

\* lines 181-189: the match on update_inner's result
MatchResult(r, its, errs) ==
    IF r.tag = "Some" THEN [items |-> Append(its, r.entry), has_errors |-> errs]
    ELSE IF r.tag = "None" THEN [items |-> its, has_errors |-> errs]
    ELSE [items |-> its, has_errors |-> TRUE]

\* one iteration that returns the error of update_inner instead of going on
LoopResolve_AbortOnError ==
    /\ pc = "loop"
    /\ idx <= Len(all_langs)
    /\ all_langs[idx].contents.type = "dir"
    /\ \E resp \in DirResponses :
          LET lang == all_langs[idx].name
              r == update_inner(lang, resp, Len(served) + 1)
              m == MatchResult(r, items, has_errors)
          IN  /\ served' = Append(served, [lang |-> lang, at |-> idx, resp |-> resp])
              /\ ret' = r
              /\ dir_tree' = IF resp.kind = "ok" THEN resp.tree ELSE dir_tree
              /\ items' = m.items
              /\ has_errors' = m.has_errors
              /\ pc' = IF r.tag = "Err" THEN "done" ELSE pc
              /\ result' = IF r.tag = "Err" THEN Err(r.msg) ELSE result
    /\ idx' = idx + 1
    /\ UNCHANGED <<git_ref, all_langs, index, output_path, output_path_pretty,
                   ser, ser_pretty, fs>>

\* lines 173-190: one iteration for a directory
LoopResolve ==
    /\ pc = "loop"
    /\ idx <= Len(all_langs)
    /\ all_langs[idx].contents.type = "dir"
    /\ \E resp \in DirResponses :
          LET lang == all_langs[idx].name
              r == update_inner(lang, resp, Len(served) + 1)
              m == MatchResult(r, items, has_errors)
          IN  /\ served' = Append(served, [lang |-> lang, at |-> idx, resp |-> resp])
              /\ ret' = r
              /\ dir_tree' = IF resp.kind = "ok" THEN resp.tree ELSE dir_tree
              /\ items' = m.items
              /\ has_errors' = m.has_errors
    /\ idx' = idx + 1
    /\ UNCHANGED <<pc, git_ref, all_langs, index, output_path, output_path_pretty,
                   ser, ser_pretty, fs, result>>

\* only the compact name gets the marker
OutputPaths_PrettyKept(errs) ==
    IF errs
    THEN [compact |-> set_extension(PathJoin(OUTPUT_DIR, FILE_NAME), INCOMPLETE_EXT),
          pretty |-> PathJoin(OUTPUT_DIR, FILE_NAME_PRETTY)]
    ELSE [compact |-> PathJoin(OUTPUT_DIR, FILE_NAME),
          pretty |-> PathJoin(OUTPUT_DIR, FILE_NAME_PRETTY)]

\* lines 198-202: the names the two files get
OutputPaths(errs) ==
    IF errs
    THEN [compact |-> set_extension(PathJoin(OUTPUT_DIR, FILE_NAME), INCOMPLETE_EXT),
          pretty |-> set_extension(PathJoin(OUTPUT_DIR, FILE_NAME_PRETTY),
                                   INCOMPLETE_EXT)]
    ELSE [compact |-> PathJoin(OUTPUT_DIR, FILE_NAME),
          pretty |-> PathJoin(OUTPUT_DIR, FILE_NAME_PRETTY)]

\* lines 192-204: the loop is over, write_to_file is called
LoopEnd ==
    /\ pc = "loop"
    /\ idx > Len(all_langs)
    /\ index' = [Index_new EXCEPT !.items = items]
    /\ output_path' = OutputPaths(has_errors).compact
    /\ output_path_pretty' = OutputPaths(has_errors).pretty
    /\ pc' = "write_to_file"
    /\ UNCHANGED <<git_ref, all_langs, idx, served, ret, items, has_errors,
                   ser, ser_pretty, fs, result, dir_tree>>

(***************************************************************************)
(* write_to_file                                                           *)
(***************************************************************************)
\* fs::write: the file holds the data afterwards
fs_write(files, path, data) == (path :> data) @@ files

\* a failed fs::write: nothing touched, or the file created/truncated
FailedWrites(files, path) == {files, (path :> [form |-> "truncated"]) @@ files}

\* lines 149-150, both succeed
Serialize ==
    /\ pc = "write_to_file"
    /\ ser' = to_string(index)
    /\ ser_pretty' = to_string_pretty(index)
    /\ pc' = "write_compact"
    /\ UNCHANGED <<git_ref, all_langs, idx, served, ret, items, has_errors, index,
                   output_path, output_path_pretty, fs, result, dir_tree>>

\* lines 149-150, one of them fails
SerializeFail ==
    /\ pc = "write_to_file"
    /\ \E first_ok \in BOOLEAN :
          ser' = IF first_ok THEN to_string(index) ELSE ser
    /\ pc' = "done"
    /\ result' = Err("serde_json")
    /\ UNCHANGED <<git_ref, all_langs, idx, served, ret, items, has_errors, index,
                   output_path, output_path_pretty, ser_pretty, fs, dir_tree>>

\* line 153 succeeds
WriteCompact ==
    /\ pc = "write_compact"
    /\ fs' = fs_write(fs, output_path, ser)
    /\ pc' = "write_pretty"
    /\ UNCHANGED <<git_ref, all_langs, idx, served, ret, items, has_errors, index,
                   output_path, output_path_pretty, ser, ser_pretty, result,
                   dir_tree>>

\* a failed compact write that is reported but does not stop write_to_file
WriteCompactFail_Continues ==
    /\ pc = "write_compact"
    /\ fs' \in FailedWrites(fs, output_path)
    /\ pc' = "write_pretty"
    /\ result' = Err("io")
    /\ UNCHANGED <<git_ref, all_langs, idx, served, ret, items, has_errors, index,
                   output_path, output_path_pretty, ser, ser_pretty, dir_tree>>

\* line 153 fails
WriteCompactFail ==
    /\ pc = "write_compact"
    /\ fs' \in FailedWrites(fs, output_path)
    /\ pc' = "done"
    /\ result' = Err("io")
    /\ UNCHANGED <<git_ref, all_langs, idx, served, ret, items, has_errors, index,
                   output_path, output_path_pretty, ser, ser_pretty, dir_tree>>

\* line 155 succeeds
WritePretty ==
    /\ pc = "write_pretty"
    /\ fs' = fs_write(fs, output_path_pretty, ser_pretty)
    /\ pc' = "done"
    /\ result' = Ok
    /\ UNCHANGED <<git_ref, all_langs, idx, served, ret, items, has_errors, index,
                   output_path, output_path_pretty, ser, ser_pretty, dir_tree>>

\* line 155 fails
WritePrettyFail ==
    /\ pc = "write_pretty"
    /\ fs' \in FailedWrites(fs, output_path_pretty)
    /\ pc' = "done"
    /\ result' = Err("io")
    /\ UNCHANGED <<git_ref, all_langs, idx, served, ret, items, has_errors, index,
                   output_path, output_path_pretty, ser, ser_pretty, dir_tree>>

Next ==
    \/ GetLatestHash
    \/ RootListing
    \/ LoopSkipFile
    \/ LoopResolve
    \/ LoopEnd
    \/ Serialize
    \/ SerializeFail
    \/ WriteCompact
    \/ WriteCompactFail
    \/ WritePretty
    \/ WritePrettyFail

Spec == Init /\ [][Next]_vars

\* the run is one sequential thread: a step that can be taken is taken
FairSpec == Spec /\ WF_vars(Next)

(***************************************************************************)
(* update_inner on its own: every listing over ResolverPool.               *)
(***************************************************************************)
RESOLVER_LANG == <<"x","x">>

InitResolve ==
    /\ pc = "update_inner"
    /\ dir_tree \in ResolverListings
    /\ ret = NoRet
    /\ git_ref = "unset"
    /\ all_langs = <<>>
    /\ idx = 1
    /\ served = <<>>
    /\ items = <<>>
    /\ has_errors = FALSE
    /\ index = Index_new
    /\ output_path = PathJoin(OUTPUT_DIR, FILE_NAME)
    /\ output_path_pretty = PathJoin(OUTPUT_DIR, FILE_NAME_PRETTY)
    /\ ser = Unset
    /\ ser_pretty = Unset
    /\ fs = <<>>
    /\ result = Running

Resolve ==
    /\ pc = "update_inner"
    /\ ret' = update_inner(RESOLVER_LANG, OkTree(dir_tree), 1)
    /\ pc' = "resolved"
    /\ UNCHANGED <<git_ref, all_langs, idx, served, items, has_errors, index,
                   output_path, output_path_pretty, ser, ser_pretty, fs, result,
                   dir_tree>>

NextResolve == Resolve

SpecResolve == InitResolve /\ [][NextResolve]_vars

(***************************************************************************)
(* Vocabulary of the properties.                                           *)
(***************************************************************************)
HasName(tree, suf) == \E i \in 1..Len(tree) : ends_with(tree[i].name, suf)

\* the listing has an entry of each of the three classes
CompleteSet(tree) ==
    /\ HasName(tree, AFF_SUFFIX)
    /\ HasName(tree, DIC_SUFFIX)
    /\ HasName(tree, LICENSE_SUFFIX)

IsClassEntry(e) ==
    \/ ends_with(e.name, AFF_SUFFIX)
    \/ ends_with(e.name, DIC_SUFFIX)
    \/ ends_with(e.name, LICENSE_SUFFIX)

\* every entry that matches one of the three classes is a file
AllMatchedAreFiles(tree) ==
    \A i \in 1..Len(tree) : IsClassEntry(tree[i]) => tree[i].contents.type = "file"

\* each class is matched by exactly one entry
OneMatchPerClass(tree) ==
    \A suf \in {AFF_SUFFIX, DIC_SUFFIX, LICENSE_SUFFIX} :
        Cardinality({i \in 1..Len(tree) : ends_with(tree[i].name, suf)}) = 1

\* the first entry of the listing whose name ends with suf is a directory
FirstMatchIsDir(tree, suf) ==
    \E i \in 1..Len(tree) :
        /\ ends_with(tree[i].name, suf)
        /\ tree[i].contents.type = "dir"
        /\ \A j \in 1..(i - 1) : ~ends_with(tree[j].name, suf)

\* the k-th resolution of the run returned Err
HardErrorAt(k) == update_inner(served[k].lang, served[k].resp, k).tag = "Err"
HardErrorOccurred == \E k \in 1..Len(served) : HardErrorAt(k)

\* no entry of items was produced by the k-th resolution
NoItemOf(k) == \A i \in 1..Len(items) : items[i].id # k

Perms(s) == {[i \in 1..Len(s) |-> s[f[i]]] : f \in Permutations(1..Len(s))}

AfterLoop == pc \in {"write_to_file", "write_compact", "write_pretty"}

(***************************************************************************)
(* C1.  A language directory whose listing has no entry for at least one   *)
(* of the three classes (.aff, .dic, license) is skipped: update_inner     *)
(* returns None, nothing is pushed to items and has_errors keeps the value *)
(* it had before that language.                                            *)
(***************************************************************************)
C1_MissingFileSkips ==
    [][ served' # served =>
          LET resp == served'[Len(served')].resp
          IN  (resp.kind = "ok" /\ ~CompleteSet(resp.tree)) =>
                 /\ ret'.tag = "None"
                 /\ items' = items
                 /\ has_errors' = has_errors ]_vars

\* a skip after an earlier hard error and an earlier entry: both are kept
C1_Witness ==
    /\ Len(served) = 2
    /\ served[2].resp.kind = "ok"
    /\ ~CompleteSet(served[2].resp.tree)
    /\ Len(served[2].resp.tree) = 2
    /\ ret.tag = "None"
    /\ has_errors
    /\ items = <<>>

(***************************************************************************)
(* C2.  As claimed: a listing that contains a .aff-named directory,        *)
(* whatever else it contains, adds no entry and sets has_errors.           *)
(***************************************************************************)
HasAffDir(tree) ==
    \E i \in 1..Len(tree) :
        ends_with(tree[i].name, AFF_SUFFIX) /\ tree[i].contents.type = "dir"

C2_AnyAffDirFlags ==
    \A k \in 1..Len(served) :
        (served[k].resp.kind = "ok" /\ HasAffDir(served[k].resp.tree)) =>
            (has_errors /\ NoItemOf(k))

(***************************************************************************)
(* C2, amended.  A listing whose first .aff-named entry is a directory and *)
(* which also has a .dic-named and a license-named entry adds no entry and *)
(* sets has_errors.                                                        *)
(***************************************************************************)
C2_FirstAffDirFlags ==
    \A k \in 1..Len(served) :
        (/\ served[k].resp.kind = "ok"
         /\ FirstMatchIsDir(served[k].resp.tree, AFF_SUFFIX)
         /\ HasName(served[k].resp.tree, DIC_SUFFIX)
         /\ HasName(served[k].resp.tree, LICENSE_SUFFIX)) =>
            (has_errors /\ NoItemOf(k))

\* the first language hit the directory, the second was still added
C2_Witness ==
    /\ Len(served) = 2
    /\ served[1].resp.kind = "ok"
    /\ FirstMatchIsDir(served[1].resp.tree, AFF_SUFFIX)
    /\ CompleteSet(served[1].resp.tree)
    /\ has_errors
    /\ Len(items) = 1
    /\ items[1].id = 2

(***************************************************************************)
(* C3.  Once a resolution has returned a hard error, write_to_file gets    *)
(* zspell-index.incomplete.json and zspell-index-pretty.incomplete.json,   *)
(* and neither canonical name is written in the run.                       *)
(***************************************************************************)
INCOMPLETE_NAME ==
    <<"z","s","p","e","l","l","-","i","n","d","e","x",
      ".","i","n","c","o","m","p","l","e","t","e",".","j","s","o","n">>
INCOMPLETE_NAME_PRETTY ==
    <<"z","s","p","e","l","l","-","i","n","d","e","x","-","p","r","e","t","t","y",
      ".","i","n","c","o","m","p","l","e","t","e",".","j","s","o","n">>

C3_IncompleteNames ==
    HardErrorOccurred =>
        /\ [dir |-> OUTPUT_DIR, file_name |-> FILE_NAME] \notin DOMAIN fs
        /\ [dir |-> OUTPUT_DIR, file_name |-> FILE_NAME_PRETTY] \notin DOMAIN fs
        /\ (AfterLoop \/ pc = "done") =>
              /\ output_path = [dir |-> OUTPUT_DIR, file_name |-> INCOMPLETE_NAME]
              /\ output_path_pretty =
                    [dir |-> OUTPUT_DIR, file_name |-> INCOMPLETE_NAME_PRETTY]
              /\ DOMAIN fs \subseteq {output_path, output_path_pretty}

C3_Witness ==
    /\ pc = "done"
    /\ result = Ok
    /\ HardErrorOccurred
    /\ Len(items) = 1
    /\ DOMAIN fs =
          {[dir |-> OUTPUT_DIR, file_name |-> INCOMPLETE_NAME],
           [dir |-> OUTPUT_DIR, file_name |-> INCOMPLETE_NAME_PRETTY]}

(***************************************************************************)
(* C4.  A failure of the latest-commit lookup or of the top-level listing  *)
(* ends the run with an error before any language is resolved and before   *)
(* write_to_file is called: no file is written.                            *)
(***************************************************************************)
TopLevelErrors ==
    {"requesting latest git hash", "into_json", "invalid response",
     "response is missing sha", "requesting root listing"}

C4_TopLevelFailureIsFatal ==
    (result.tag = "Err" /\ result.msg \in TopLevelErrors) =>
        /\ pc = "done"
        /\ served = <<>>
        /\ items = <<>>
        /\ ser = Unset
        /\ ser_pretty = Unset
        /\ fs = <<>>

C4_Witness ==
    /\ pc = "done"
    /\ result = Err("requesting root listing")
    /\ git_ref = "c0ffee"
    /\ fs = <<>>

(***************************************************************************)
(* C5.  With no hard error, the index given to write_to_file (and every    *)
(* file written from it) lists exactly the top-level directories whose     *)
(* listing had the complete set, in top-level order, one entry each with   *)
(* lang the directory's name; top-level files contribute nothing.          *)
(***************************************************************************)
\* the response served for the top-level entry at position i
ServedFor(i) == CHOOSE r \in {served[k] : k \in 1..Len(served)} : r.at = i

RECURSIVE ExpectedLangs(_)
\* names of the directories among the first n top-level entries whose listing
\* had all three classes
ExpectedLangs(n) ==
    IF n = 0 THEN <<>>
    ELSE LET e == all_langs[n]
         IN  IF e.contents.type = "dir" /\ CompleteSet(ServedFor(n).resp.tree)
             THEN Append(ExpectedLangs(n - 1), e.name)
             ELSE ExpectedLangs(n - 1)

LangsOf(its) == [i \in 1..Len(its) |-> its[i].lang]

C5_ItemsAreCompleteDirsInOrder ==
    (~HardErrorOccurred /\ (AfterLoop \/ (pc = "done" /\ fs # <<>>))) =>
        /\ LangsOf(index.items) = ExpectedLangs(Len(all_langs))
        /\ \A p \in DOMAIN fs :
              fs[p].form # "truncated" =>
                 LangsOf(fs[p].value.items) = ExpectedLangs(Len(all_langs))

\* a file between two directories, the first complete, the second skipped
C5_Witness ==
    /\ pc = "done"
    /\ result = Ok
    /\ ~has_errors
    /\ Len(all_langs) = 3
    /\ all_langs[2].contents.type = "file"
    /\ Len(served) = 2
    /\ LangsOf(fs[output_path].value.items) = <<all_langs[1].name>>

(***************************************************************************)
(* C6.  As claimed: a listing with an entry of each class resolves, in     *)
(* every order of its entries, to one entry of format Hunspell, and the    *)
(* outcome is the same for every order.                                    *)
(***************************************************************************)
IsHunspellEntry(r) == r.tag = "Some" /\ r.entry.format.fmt = "hunspell"

C6_AnyOrderResolves ==
    (pc = "resolved" /\ CompleteSet(dir_tree)) =>
        /\ IsHunspellEntry(ret)
        /\ \A p \in Perms(dir_tree) :
              update_inner(RESOLVER_LANG, OkTree(p), 1) = ret

(***************************************************************************)
(* C6, amended.  A listing with an entry of each class, every matching     *)
(* entry being a file, resolves in every order of its entries to one entry *)
(* of format Hunspell; the entry is the same for every order when each     *)
(* class is matched by exactly one entry (otherwise the first match in     *)
(* listing order is the one taken).                                        *)
(***************************************************************************)
C6_FilesResolveInAnyOrder ==
    (pc = "resolved" /\ CompleteSet(dir_tree) /\ AllMatchedAreFiles(dir_tree)) =>
        /\ IsHunspellEntry(ret)
        /\ \A p \in Perms(dir_tree) :
              LET r == update_inner(RESOLVER_LANG, OkTree(p), 1)
              IN  /\ IsHunspellEntry(r)
                  /\ OneMatchPerClass(dir_tree) => r = ret
                  /\ r.entry.format.aff = make_downloadable(p[FindAff(p)]).val

C6_Witness ==
    /\ pc = "resolved"
    /\ dir_tree = <<E_lic, E_readme, E_dic, E_aff>>
    /\ IsHunspellEntry(ret)

(***************************************************************************)
(* C7.  As claimed: with an affix and a dictionary entry present, a        *)
(* license is found exactly when some entry's name equals "license"        *)
(* ignoring letter case.                                                   *)
(***************************************************************************)
ToLower(c) ==
    CASE c = "L" -> "l" [] c = "I" -> "i" [] c = "C" -> "c" [] c = "E" -> "e"
      [] c = "N" -> "n" [] c = "S" -> "s" [] OTHER -> c

eq_ignore_case(a, b) ==
    Len(a) = Len(b) /\ \A i \in 1..Len(a) : ToLower(a[i]) = ToLower(b[i])

LicenseFound(r) == ~(r.tag = "None" /\ r.skip = "no license file")

C7_CaseInsensitiveLicense ==
    (pc = "resolved" /\ HasName(dir_tree, AFF_SUFFIX) /\ HasName(dir_tree, DIC_SUFFIX)) =>
        (LicenseFound(ret) <=>
            \E i \in 1..Len(dir_tree) :
                eq_ignore_case(dir_tree[i].name, <<"l","i","c","e","n","s","e">>))

(***************************************************************************)
(* C7, amended.  With an affix and a dictionary entry present, a license   *)
(* is found exactly when some entry's name ends with the lower-case        *)
(* string "license" (case-sensitive suffix match), and the first such      *)
(* entry is the one taken.                                                 *)
(***************************************************************************)
EndsWithLowerLicense(n) ==
    /\ Len(n) >= 7
    /\ [i \in 1..7 |-> n[Len(n) - 7 + i]] = <<"l","i","c","e","n","s","e">>

C7_SuffixLicense ==
    (pc = "resolved" /\ HasName(dir_tree, AFF_SUFFIX) /\ HasName(dir_tree, DIC_SUFFIX)) =>
        /\ LicenseFound(ret) <=>
              \E i \in 1..Len(dir_tree) : EndsWithLowerLicense(dir_tree[i].name)
        /\ ret.tag = "Some" =>
              \E i \in 1..Len(dir_tree) :
                 /\ EndsWithLowerLicense(dir_tree[i].name)
                 /\ \A j \in 1..(i - 1) : ~EndsWithLowerLicense(dir_tree[j].name)
                 /\ ret.entry.lic.urls = <<dir_tree[i].contents.download_url>>

\* LICENSE is passed over, unlicense is taken
C7_Witness ==
    /\ pc = "resolved"
    /\ dir_tree = <<E_LICENSE, E_aff, E_dic, E_unlicense>>
    /\ ret.tag = "Some"
    /\ ret.entry.lic.urls = <<"u_unlicense">>

(***************************************************************************)
(* C8.  A hard error while resolving one language does not abort the run:  *)
(* every later top-level directory is still resolved, each of them whose   *)
(* listing has the complete set of files is in items, and write_to_file is *)
(* eventually called with the accumulated index.                           *)
(***************************************************************************)
WriteToFileCalled == pc = "write_to_file" /\ index.items = items

C8_LaterDirsResolved ==
    \A k \in 1..Len(served) :
        (HardErrorAt(k) /\ (AfterLoop \/ pc = "done")) =>
            \A i \in (served[k].at + 1)..Len(all_langs) :
                all_langs[i].contents.type = "dir" =>
                    \E m \in (k + 1)..Len(served) :
                        /\ served[m].at = i
                        /\ served[m].lang = all_langs[i].name
                        /\ (/\ served[m].resp.kind = "ok"
                            /\ CompleteSet(served[m].resp.tree)
                            /\ AllMatchedAreFiles(served[m].resp.tree)) =>
                               \E n \in 1..Len(items) :
                                   items[n].id = m /\ items[n].lang = all_langs[i].name

C8_HardErrorNeverAborts ==
    /\ [](HardErrorOccurred => (pc = "loop" \/ AfterLoop \/ pc = "done"))
    /\ []((HardErrorOccurred /\ result.tag = "Err") =>
             result.msg \in {"serde_json", "io"})
    /\ []C8_LaterDirsResolved
    /\ ((HardErrorOccurred /\ pc = "loop") ~> WriteToFileCalled)

\* a hard error on the first directory, the second one is in the written index
C8_Witness ==
    /\ pc = "done"
    /\ result = Ok
    /\ Len(served) = 2
    /\ HardErrorAt(1)
    /\ served[1].resp.kind = "transport_error"
    /\ Len(items) = 1
    /\ fs[output_path].value.items = items

(***************************************************************************)
(* C9.  make_downloadable of a file entry is the one-element list of its   *)
(* download_url, "sha1:" followed by its sha, and its size; in a produced  *)
(* entry aff, dic and lic are built this way from the matched affix,       *)
(* dictionary and license entries respectively.                            *)
(***************************************************************************)
DownloadableOf(e) ==
    [urls |-> <<e.contents.download_url>>,
     hash |-> <<"s","h","a","1",":">> \o e.sha,
     size |-> e.size]

FirstNamed(tree, suf) ==
    CHOOSE i \in 1..Len(tree) :
        /\ ends_with(tree[i].name, suf)
        /\ \A j \in 1..(i - 1) : ~ends_with(tree[j].name, suf)

C10_WriteFailureIsFatal ==
    [][ /\ (pc = "write_to_file" /\ result'.tag = "Err") =>
              (pc' = "done" /\ fs' = fs /\ fs = <<>>)
        /\ (pc = "write_compact" /\ result'.tag = "Err") =>
              (pc' = "done" /\ output_path_pretty \notin DOMAIN fs')
        /\ (pc = "write_pretty" /\ result'.tag = "Err") =>
              /\ pc' = "done"
              /\ output_path \in DOMAIN fs'
              /\ fs'[output_path] = to_string(index)
        /\ result.tag = "Err" => (fs' = fs /\ pc' = "done") ]_vars

\* the pretty write failed after the compact file was written
C10_Witness ==
    /\ pc = "done"
    /\ result = Err("io")
    /\ output_path \in DOMAIN fs
    /\ fs[output_path] = to_string(index)
    /\ Len(index.items) = 1
    /\ output_path_pretty \in DOMAIN fs
    /\ fs[output_path_pretty].form = "truncated"

====
